---- MODULE Spec2Model ----
(***************************************************************************)
(* libtorrent aux::disk_cache (include/libtorrent/aux_/disk_cache.hpp).    *)
(*                                                                         *)
(* The cache is a multi_index_container of cached_piece_entry guarded by   *)
(* one mutex.  Every step of this model is one critical section: the code  *)
(* a thread runs between acquiring m_mutex and releasing it again.  The    *)
(* operations that release the mutex around a callback (kick_hasher,       *)
(* hash_piece, flush_to_disk, flush_storage) are split at the unlock: the  *)
(* thread's locals that live across the window are kept in thr[t].         *)
(* Every state of the model is therefore a state in which the mutex is     *)
(* free.  The hashing loop of kick_hasher, which updates the piece's hash  *)
(* context inside the window without the mutex, is a step of its own.      *)
(***************************************************************************)
EXTENDS Integers, Sequences, FiniteSets, TLC

\* ------------------------------------------------------------------ bounds
\* blocks per piece: (piece_size + default_block_size - 1) / default_block_size
NumBlocks == 2

\* storages (torrents) and the pieces that are downloaded: piece 0 of
\* storage 0 has NumBlocks blocks, piece 0 of storage 1 is a larger piece
Storages == {0, 1}
Locs == {<<0, 0>>, <<1, 0>>}

\* the piece the threads of Spec work on concurrently
ConcLocs == {<<0, 0>>}

\* threads that run the operations which release the mutex
Threads == {"t1", "t2"}

\* values of target_blocks passed to flush_to_disk
Targets == {0, 1}

\* insert is not called while m_blocks is at this ceiling (the disk thread
\* stops issuing writes when the cache is full)
MaxDirty == 3

\* contents of the buffers of the write jobs handed to insert: one value
\* where the contents do not matter, two where the reads are checked
Bufs == {1}
GetBufs == {1, 2}

\* clear_piece jobs handed to try_clear_piece (0 is nullptr)
ClearJobs == {1, 2}

VARIABLES
    m_pieces,           \* piece_location -> cached_piece_entry (cached pieces)
    view1,              \* index 1: ordered by cheap_to_flush(), greater first
    view2,              \* index 2: ordered by ready_to_flush, true first
    m_blocks,           \* number of dirty blocks
    m_flushing_blocks,  \* blocks being flushed by a disk thread
    thr,                \* per thread: position and locals across the window
    clear_cb,           \* calls of clear_piece_fun made by the last step
    reader_cb,          \* calls of a reader callback made by the last step
    completed_jobs      \* hash jobs pushed onto completed_jobs by the last step

vars == <<m_pieces, view1, view2, m_blocks, m_flushing_blocks, thr, clear_cb, reader_cb,
          completed_jobs>>

\* ------------------------------------------------------------ data model
\* int blocks_in_piece, computed in insert() from the piece size
blocks_in_piece(loc) == IF loc[1] = 0 THEN NumBlocks ELSE NumBlocks + 2

\* cached_block_entry: write_job != nullptr, bool(buf_holder), flushed_to_disk;
\* job_buf is the bytes of the write job's buffer and held_buf the bytes of
\* the buffer buf_holder owns (0 where there is none)
cached_block_entry ==
    [write_job |-> FALSE, buf_holder |-> FALSE, flushed_to_disk |-> FALSE,
     job_buf |-> 0, held_buf |-> 0]

\* cached_piece_entry(loc, num_blocks) with its default member initialisers.
\* ph, the SHA-1 context, is kept as the number k of blocks folded into it
\* when what was folded is the buffers of blocks 0 .. k-1 in index order,
\* each once, and as Garbage when anything else was folded.
cached_piece_entry(loc) ==
    [ blocks |-> [b \in 0 .. (blocks_in_piece(loc) - 1) |-> cached_block_entry],
      ready_to_flush |-> FALSE,
      hashing |-> FALSE,
      flushing |-> FALSE,
      piece_hash_returned |-> FALSE,
      hasher_cursor |-> 0,
      flushed_cursor |-> 0,
      hash_job |-> FALSE,
      clear_piece |-> 0,
      ph |-> 0 ]

\* cached_block_entry::buf().data() != nullptr
buf(b) == b.buf_holder \/ b.write_job

\* cached_block_entry::buf(): the bytes of the span it returns (0: nullptr)
buf_bytes_of_job(b) == IF b.write_job THEN b.job_buf ELSE 0

buf_bytes(b) ==
    IF b.buf_holder THEN b.held_buf
    ELSE IF b.write_job THEN b.job_buf
    ELSE 0

\* cached_piece_entry::cheap_to_flush
cheap_to_flush(e) == e.hasher_cursor - e.flushed_cursor

\* have_buffers(blocks.subspan(from))
have_buffers(blocks, from) ==
    \A b \in DOMAIN blocks : b >= from => buf(blocks[b])

\* compute_ready_to_flush(blocks)
compute_ready_to_flush(blocks) ==
    \A b \in DOMAIN blocks : blocks[b].write_job \/ blocks[b].flushed_to_disk

\* compute_flushed_cursor(blocks): length of the leading run of flushed blocks
\* of the span that starts at block `first`
compute_flushed_cursor_counting(blocks, first) ==
    Cardinality({b \in DOMAIN blocks : b >= first /\ blocks[b].flushed_to_disk})

compute_flushed_cursor(blocks, first) ==
    LET n == Cardinality(DOMAIN blocks)
        stop == {b \in first .. (n - 1) : ~blocks[b].flushed_to_disk}
    IN  IF stop = {} THEN n - first
        ELSE (CHOOSE b \in stop : \A c \in stop : b <= c) - first

\* count_jobs(blocks)
count_jobs(blocks) == Cardinality({b \in DOMAIN blocks : blocks[b].write_job})

\* ------------------------------------------------- multi_index container
\* The state of the cache that the critical sections read and write.
\* cb collects the calls of clear_piece_fun the section makes, rd the calls
\* of the reader callback f, cj the hash jobs it pushes onto completed_jobs.
Cache == [p |-> m_pieces, v1 |-> view1, v2 |-> view2,
          mb |-> m_blocks, mf |-> m_flushing_blocks, cb |-> <<>>, rd |-> <<>>,
          cj |-> <<>>]

\* keys of the two ordered_non_unique indices (both use std::greater)
key1(e) == cheap_to_flush(e)
key2(e) == IF e.ready_to_flush THEN 1 ELSE 0

IndexOf(seq, x) == CHOOSE k \in 1 .. Len(seq) : seq[k] = x

Without(seq, x) == SelectSeq(seq, LAMBDA y : y # x)

\* ordered_index link_point for ordered_non_unique: the new node goes to
\* the upper bound of its key (after every node that does not order after
\* it); K maps each piece to its key in the index
link(seq, x, K) ==
    LET after == {j \in 1 .. Len(seq) : K[x] > K[seq[j]]}
        at == IF after = {} THEN Len(seq) + 1
              ELSE CHOOSE j \in after : \A k \in after : j <= k
    IN  SubSeq(seq, 1, at - 1) \o <<x>> \o SubSeq(seq, at, Len(seq))

\* ordered_index modify_: the node stays where it is if it is still in
\* order with both neighbours (in_place), else it is unlinked and linked again
relink(seq, x, K) ==
    LET pos == IndexOf(seq, x)
        in_place == /\ (pos = 1 \/ ~(K[x] > K[seq[pos - 1]]))
                    /\ (pos = Len(seq) \/ ~(K[seq[pos + 1]] > K[x]))
    IN  IF in_place THEN seq ELSE link(Without(seq, x), x, K)

\* view.modify(iter, f): the entry at loc becomes e; every index is updated
modify(c, loc, e) ==
    LET np == [c.p EXCEPT ![loc] = e]
    IN  [c EXCEPT !.p = np,
                  !.v1 = relink(c.v1, loc, [l \in DOMAIN np |-> key1(np[l])]),
                  !.v2 = relink(c.v2, loc, [l \in DOMAIN np |-> key2(np[l])])]

\* m_pieces.insert(std::move(pe))
container_insert(c, loc) ==
    LET np == [l \in (DOMAIN c.p) \cup {loc} |->
                 IF l = loc THEN cached_piece_entry(loc) ELSE c.p[l]]
    IN  [c EXCEPT !.p = np,
                  !.v1 = link(c.v1, loc, [l \in DOMAIN np |-> key1(np[l])]),
                  !.v2 = link(c.v2, loc, [l \in DOMAIN np |-> key2(np[l])])]

\* view.erase(iter)
erase(c, loc) ==
    [c EXCEPT !.p = [l \in (DOMAIN c.p) \ {loc} |-> c.p[l]],
              !.v1 = Without(c.v1, loc),
              !.v2 = Without(c.v2, loc)]

\* piece_location::operator<
loc_less(a, b) == a[1] < b[1] \/ (a[1] = b[1] /\ a[2] < b[2])

\* index 0: the cached pieces in piece_location order
RECURSIVE view0_of(_)
view0_of(S) ==
    IF S = {} THEN <<>>
    ELSE LET m == CHOOSE x \in S : \A y \in S : x = y \/ loc_less(x, y)
         IN  <<m>> \o view0_of(S \ {m})

view0(c) == view0_of(DOMAIN c.p)

\* --------------------------------------------------------------- threads
Idle == [pc |-> "idle", loc |-> <<0, 0>>, cursor |-> 0, i |-> 0, num_blocks |-> 0,
         hash_cursor |-> 0, first |-> 0, target |-> 0, pieces |-> <<>>, stale |-> FALSE,
         hashed |-> FALSE]

HashWindows == {"kick_hasher", "hash_piece"}
FlushWindows == {"flush_A", "flush_B", "flush_C", "flush_storage"}

\* an erased entry leaves the iterators of the threads inside a window on
\* it dangling
dangle(th, loc) ==
    [t \in Threads |->
        IF th[t].pc # "idle" /\ th[t].loc = loc THEN [th[t] EXCEPT !.stale = TRUE]
        ELSE th[t]]

\* no thread holds m_mutex between two steps, unless it is inside
\* clear_piece_fun and called a public operation from there
mutex_free == \A t \in Threads : thr[t].pc # "clear_cb"

\* a critical section: it starts when the mutex can be locked and commits
\* the state c it computed
Commit(c, th) ==
    /\ mutex_free
    /\ m_pieces' = c.p
    /\ view1' = c.v1
    /\ view2' = c.v2
    /\ m_blocks' = c.mb
    /\ m_flushing_blocks' = c.mf
    /\ thr' = th
    /\ clear_cb' = c.cb
    /\ reader_cb' = c.rd
    /\ completed_jobs' = c.cj

Init ==
    /\ m_pieces = <<>>
    /\ view1 = <<>>
    /\ view2 = <<>>
    /\ m_blocks = 0
    /\ m_flushing_blocks = 0
    /\ thr = [t \in Threads |-> Idle]
    /\ clear_cb = <<>>
    /\ reader_cb = <<>>
    /\ completed_jobs = <<>>

\* ------------------------------------------------------ get, get2, hash2
\* get(loc, block_idx, f): the value it returns
get_result(c, loc, block_idx) ==
    loc \in DOMAIN c.p /\ buf(c.p[loc].blocks[block_idx])

\* f(i->blocks[block_idx].buf()) is called before the lock l is released
get_cache_unlocked(c, loc, block_idx) ==
    IF get_result(c, loc, block_idx)
    THEN [c EXCEPT !.rd = Append(c.rd, [op |-> "get", locked |-> FALSE,
                                         bufs |-> <<buf_bytes(c.p[loc].blocks[block_idx])>>])]
    ELSE c

get_cache(c, loc, block_idx) ==
    IF get_result(c, loc, block_idx)
    THEN [c EXCEPT !.rd = Append(c.rd, [op |-> "get", locked |-> TRUE,
                                         bufs |-> <<buf_bytes(c.p[loc].blocks[block_idx])>>])]
    ELSE c

get(loc, block_idx) ==
    Commit(get_cache(Cache, loc, block_idx), thr)

\* get2(loc, block_idx, f): f(buf1, buf2) is called, with the lock held,
\* unless the piece is absent or neither block has a buffer
get2_called(c, loc, block_idx) ==
    /\ loc \in DOMAIN c.p
    /\ buf(c.p[loc].blocks[block_idx]) \/ buf(c.p[loc].blocks[block_idx + 1])

get2_cache(c, loc, block_idx) ==
    IF get2_called(c, loc, block_idx)
    THEN [c EXCEPT !.rd = Append(c.rd, [op |-> "get2", locked |-> TRUE,
                                         bufs |-> <<buf_bytes(c.p[loc].blocks[block_idx]),
                                                    buf_bytes(c.p[loc].blocks[block_idx + 1])>>])]
    ELSE c

get2(loc, block_idx) ==
    Commit(get2_cache(Cache, loc, block_idx), thr)

\* hash2(loc, block_idx, f): where the hash it returns comes from
hash2_result(c, loc, block_idx) ==
    IF loc \notin DOMAIN c.p THEN "fallback"
    ELSE LET e == c.p[loc] IN
         IF e.hashing THEN "fallback"
         ELSE IF e.hasher_cursor > block_idx THEN "block_hash"
         ELSE IF buf(e.blocks[block_idx]) THEN "hash_of_buf"
         ELSE "fallback"

\* the fallback f() is called after l.unlock()
hash2_cache(c, loc, block_idx) ==
    IF hash2_result(c, loc, block_idx) = "fallback"
    THEN [c EXCEPT !.rd = Append(c.rd, [op |-> "hash2", locked |-> FALSE, bufs |-> <<>>])]
    ELSE c

hash2(loc, block_idx) ==
    Commit(hash2_cache(Cache, loc, block_idx), thr)

\* ---------------------------------------------------------------- insert
\* the assertions of insert(): the slot is vacant and not below a cursor
insert_pre(c, loc, block_idx) ==
    loc \in DOMAIN c.p =>
        LET e == c.p[loc]
            blk == e.blocks[block_idx]
        IN  /\ ~blk.buf_holder
            /\ ~blk.write_job
            /\ ~blk.flushed_to_disk
            /\ block_idx >= e.flushed_cursor
            /\ block_idx >= e.hasher_cursor

\* the cache after insert(loc, block_idx, write_job)
insert_cache(c, loc, block_idx) ==
    LET c1 == IF loc \in DOMAIN c.p THEN c ELSE container_insert(c, loc)
        blocks == [c1.p[loc].blocks EXCEPT ![block_idx].write_job = TRUE]
        c2 == [c1 EXCEPT !.p[loc].blocks = blocks, !.mb = c1.mb + 1]
        ready_to_flush == compute_ready_to_flush(blocks)
    IN  IF ready_to_flush # c2.p[loc].ready_to_flush
        THEN modify(c2, loc, [c2.p[loc] EXCEPT !.ready_to_flush = ready_to_flush])
        ELSE c2

\* the value insert() returns
insert_result_first_block(c, loc, block_idx) == block_idx = 0

insert_result(c, loc, block_idx) ==
    block_idx = 0 \/ compute_ready_to_flush(insert_cache(c, loc, block_idx).p[loc].blocks)

\* the write job handed to insert carries its buffer: job.buf holds `bytes`
insert_job(c, loc, block_idx, bytes) ==
    [insert_cache(c, loc, block_idx) EXCEPT !.p[loc].blocks[block_idx].job_buf = bytes]

insert(loc, block_idx, bytes) ==
    /\ m_blocks < MaxDirty
    /\ insert_pre(Cache, loc, block_idx)
    /\ Commit(insert_job(Cache, loc, block_idx, bytes), thr)

\* ------------------------------------------------------ clear_piece_impl
\* the write jobs clear_piece_impl pushes to `aborted` (block indices)
aborted_jobs(e) == {b \in DOMAIN e.blocks : e.blocks[b].write_job}

\* clear_piece_impl(cpe, aborted): the entry it leaves.  flushed_to_disk is
\* reset only in the branch for blocks that hold a write job.
clear_piece_impl_keeps_cursor(e) ==
    [e EXCEPT !.blocks = [b \in DOMAIN e.blocks |-> cached_block_entry],
              !.ready_to_flush = FALSE,
              !.piece_hash_returned = FALSE,
              !.flushed_cursor = 0,
              !.ph = 0]

clear_piece_impl(e) ==
    [e EXCEPT !.blocks = [b \in DOMAIN e.blocks |->
                            IF e.blocks[b].write_job
                            THEN cached_block_entry
                            ELSE [e.blocks[b] EXCEPT !.buf_holder = FALSE,
                                                     !.held_buf = 0]],
              !.ready_to_flush = FALSE,
              !.piece_hash_returned = FALSE,
              !.hasher_cursor = 0,
              !.flushed_cursor = 0,
              !.ph = 0]

\* the queue `aborted` after the loop: aborted.push_back(cbe.write_job) for
\* idx = 0, 1, ... in turn
RECURSIVE clear_piece_aborted(_, _)
clear_piece_aborted(e, idx) ==
    IF idx \notin DOMAIN e.blocks THEN <<>>
    ELSE (IF e.blocks[idx].write_job THEN <<idx>> ELSE <<>>)
         \o clear_piece_aborted(e, idx + 1)

\* --m_blocks for every aborted job
clear_piece_count(c, loc) == c.mb - Cardinality(aborted_jobs(c.p[loc]))

\* -------------------------------------------------------- try_clear_piece
\* TORRENT_ASSERT(!i->hashing), reached when the piece is not flushing
try_clear_piece_pre(c, loc) ==
    (loc \in DOMAIN c.p /\ ~c.p[loc].flushing) => ~c.p[loc].hashing

\* the value try_clear_piece returns
try_clear_piece_result_cached(c, loc) ==
    loc \in DOMAIN c.p /\ ~c.p[loc].flushing /\ ~c.p[loc].hashing

try_clear_piece_result(c, loc) ==
    loc \notin DOMAIN c.p \/ (~c.p[loc].flushing /\ ~c.p[loc].hashing)

\* the cache after try_clear_piece(loc, j, aborted)
try_clear_piece_cache(c, loc, j) ==
    IF loc \notin DOMAIN c.p THEN c
    ELSE IF c.p[loc].flushing \/ c.p[loc].hashing
    THEN modify(c, loc, [c.p[loc] EXCEPT !.clear_piece = j])
    ELSE [modify(c, loc, clear_piece_impl(c.p[loc])) EXCEPT !.mb = clear_piece_count(c, loc)]

\* the queue `aborted` when try_clear_piece returns
try_clear_piece_aborted(c, loc) ==
    IF loc \in DOMAIN c.p /\ ~c.p[loc].flushing /\ ~c.p[loc].hashing
    THEN clear_piece_aborted(c.p[loc], 0)
    ELSE <<>>

\* the job handed in is a new job: the first one not parked on a piece
new_clear_job(c) ==
    CHOOSE j \in ClearJobs :
        /\ \A l \in DOMAIN c.p : c.p[l].clear_piece # j
        /\ \A k \in ClearJobs : k < j => \E l \in DOMAIN c.p : c.p[l].clear_piece = k

try_clear_piece(loc, j) ==
    /\ loc \in DOMAIN m_pieces
    /\ \E k \in ClearJobs : \A l \in DOMAIN m_pieces : m_pieces[l].clear_piece # k
    /\ j = new_clear_job(Cache)
    /\ try_clear_piece_pre(Cache, loc)
    /\ Commit(try_clear_piece_cache(Cache, loc, j), thr)

\* --------------------------------------------------------- try_hash_piece
\* TORRENT_ASSERT(!i->piece_hash_returned), and in the branch that hangs the
\* job TORRENT_ASSERT(i->hash_job == nullptr)
try_hash_piece_result(c, loc) ==
    IF loc \notin DOMAIN c.p THEN "post_job"
    ELSE LET e == c.p[loc] IN
         IF ~e.hashing /\ e.hasher_cursor = blocks_in_piece(loc) THEN "job_completed"
         ELSE IF /\ e.hashing
                 /\ e.hasher_cursor < blocks_in_piece(loc)
                 /\ have_buffers(e.blocks, e.hasher_cursor)
         THEN "job_queued"
         ELSE "post_job"

\* job.piece_hash = e.ph.final(): the hash written into the job
try_hash_piece_hash(c, loc) == c.p[loc].ph

try_hash_piece_pre(c, loc) ==
    loc \in DOMAIN c.p =>
        /\ ~c.p[loc].piece_hash_returned
        /\ try_hash_piece_result(c, loc) = "job_queued" => ~c.p[loc].hash_job

try_hash_piece_cache(c, loc) ==
    LET r == try_hash_piece_result(c, loc) IN
    IF r = "job_completed"
    THEN modify(c, loc, [c.p[loc] EXCEPT !.piece_hash_returned = TRUE])
    ELSE IF r = "job_queued"
    THEN modify(c, loc, [c.p[loc] EXCEPT !.hash_job = TRUE])
    ELSE c

try_hash_piece(loc) ==
    /\ loc \in DOMAIN m_pieces
    /\ try_hash_piece_pre(Cache, loc)
    /\ try_hash_piece_result(Cache, loc) # "post_job"
    /\ Commit(try_hash_piece_cache(Cache, loc), thr)

\* ------------------------------------------------------------ kick_hasher
\* keep_going: the run of resident blocks from cursor; i is its length
hash_run_to_end(e, cursor) == Cardinality(DOMAIN e.blocks) - cursor

hash_run(e, cursor) ==
    LET n == Cardinality(DOMAIN e.blocks)
        gaps == {b \in cursor .. (n - 1) : ~buf(e.blocks[b])}
    IN  IF gaps = {} THEN n - cursor
        ELSE (CHOOSE b \in gaps : \A g \in gaps : b <= g) - cursor

\* from keep_going to l.unlock(): capture the run, pin the piece
kick_hasher_pin(c, th, t, loc, cursor) ==
    [c |-> modify(c, loc, [c.p[loc] EXCEPT !.hashing = TRUE]),
     th |-> [th EXCEPT ![t] = [Idle EXCEPT !.pc = "kick_hasher", !.loc = loc,
                                          !.cursor = cursor,
                                          !.i = hash_run(c.p[loc], cursor)]]]

\* a context that is not the fold of blocks 0 .. k-1 for any k
Garbage == 0 - 1

\* the loop over the captured buffers, run with the mutex released:
\* ctx.update(buf) for each, ++cursor.  The context stays the fold of a
\* prefix only if it held blocks 0 .. cursor-1 and every captured buffer is
\* read intact; a captured buffer that was freed in the meantime is read
\* after its release and may or may not still hold the block's bytes.
hashed_blocks(e, cursor, i, intact) ==
    IF i = 0 THEN e.ph
    ELSE IF /\ e.ph = cursor
            /\ \A b \in cursor .. (cursor + i - 1) : buf(e.blocks[b]) \/ intact
    THEN cursor + i
    ELSE Garbage

kick_hasher_hash(t) ==
    /\ thr[t].pc = "kick_hasher"
    /\ ~thr[t].hashed
    /\ LET loc == thr[t].loc
           th == [thr EXCEPT ![t].hashed = TRUE]
       IN  \/ /\ loc \in DOMAIN m_pieces
              /\ \E intact \in BOOLEAN :
                    Commit([Cache EXCEPT !.p[loc].ph =
                               hashed_blocks(m_pieces[loc], thr[t].cursor,
                                             thr[t].i, intact)],
                           th)
           \/ /\ thr[t].stale
              /\ Commit(Cache, th)

kick_hasher_begin(t, loc) ==
    /\ thr[t].pc = "idle"
    /\ loc \in DOMAIN m_pieces
    /\ ~m_pieces[loc].hashing
    /\ LET r == kick_hasher_pin(Cache, thr, t, loc, m_pieces[loc].hasher_cursor)
       IN  Commit(r.c, r.th)

\* job.piece_hash = ctx.final(); completed_jobs.push_back(j): the job as it
\* is pushed, with the context and the cursor it was finalised at
post_hash_job(e, loc) ==
    [loc |-> loc, piece_hash |-> e.ph, hasher_cursor |-> e.hasher_cursor]

\* from l.lock() after the hashing loop to the next unlock or the return
kick_hasher_locked(c, th, t) ==
    LET loc == th[t].loc
        e == c.p[loc]
        n == blocks_in_piece(loc)
        cursor == th[t].cursor + th[t].i
        \* get_blocks().subspan(piece_iter->hasher_cursor, i)
        span == {b \in DOMAIN e.blocks :
                    b >= e.hasher_cursor /\ b < e.hasher_cursor + th[t].i}
        blocks == [b \in DOMAIN e.blocks |->
                     IF b \in span THEN [e.blocks[b] EXCEPT !.buf_holder = FALSE,
                                                             !.held_buf = 0]
                     ELSE e.blocks[b]]
        c1 == modify(c, loc, [e EXCEPT !.blocks = blocks,
                                       !.hasher_cursor = cursor,
                                       !.hashing = FALSE])
        e1 == c1.p[loc]
    IN  IF cursor # n /\ buf(e1.blocks[cursor])
        THEN kick_hasher_pin(c1, th, t, loc, cursor)
        ELSE IF ~e1.hash_job
        THEN [c |-> c1, th |-> [th EXCEPT ![t] = Idle]]
        ELSE [c |-> [modify(c1, loc,
                       [e1 EXCEPT !.hash_job = FALSE,
                                  !.ready_to_flush = compute_ready_to_flush(e1.blocks)])
                     EXCEPT !.cj = Append(c1.cj, post_hash_job(e1, loc))],
              th |-> [th EXCEPT ![t] = Idle]]

kick_hasher_end(t) ==
    /\ thr[t].pc = "kick_hasher"
    /\ thr[t].hashed
    /\ \/ /\ thr[t].loc \in DOMAIN m_pieces
          /\ \E r \in {kick_hasher_locked(Cache, thr, t)} : Commit(r.c, r.th)
       \/ /\ thr[t].stale
          /\ Commit(Cache, [thr EXCEPT ![t] = Idle])

\* kick_hasher(loc) run to its return by one thread with nothing else
\* running
kick_hasher_alone(c, loc) ==
    IF loc \notin DOMAIN c.p \/ c.p[loc].hashing THEN c
    ELSE LET e == c.p[loc]
             r == kick_hasher_pin(c, [t \in Threads |-> Idle], "t1", loc, e.hasher_cursor)
             l == r.th["t1"]
             c1 == [r.c EXCEPT !.p[loc].ph = hashed_blocks(e, l.cursor, l.i, TRUE)]
         IN  kick_hasher_locked(c1, r.th, "t1").c

\* ------------------------------------------------------------- hash_piece
\* the value hash_piece returns: false if the piece is not in the cache,
\* and then f is not called
hash_piece_result(c, loc) == loc \in DOMAIN c.p

\* from the lock to l.unlock(): the piece is pinned, whatever its flag was
hash_piece_cache(c, loc) ==
    IF hash_piece_result(c, loc)
    THEN modify(c, loc, [c.p[loc] EXCEPT !.hashing = TRUE])
    ELSE c

hash_piece_begin(t, loc) ==
    /\ thr[t].pc = "idle"
    /\ hash_piece_result(Cache, loc)
    /\ Commit(hash_piece_cache(Cache, loc),
              [thr EXCEPT ![t] = [Idle EXCEPT !.pc = "hash_piece", !.loc = loc]])

\* the callback f has returned; scope_end locks and clears the flag
hash_piece_end(t) ==
    /\ thr[t].pc = "hash_piece"
    /\ \/ /\ thr[t].loc \in DOMAIN m_pieces
          /\ Commit(modify(Cache, thr[t].loc, [m_pieces[thr[t].loc] EXCEPT !.hashing = FALSE]),
                    [thr EXCEPT ![t] = Idle])
       \/ /\ thr[t].stale
          /\ Commit(Cache, [thr EXCEPT ![t] = Idle])

\* ---------------------------------------------------- flushing a piece
\* the bits a writer may set: blocks of the span that hold a write job
writable(e, first) == {b \in DOMAIN e.blocks : b >= first /\ e.blocks[b].write_job}

\* the loop over flushed_blocks after the writer returned.  blocks is the
\* span that starts at block `first`; bit i of the bitfield is block first + i
\* and is compared with hash_cursor as it is.
flushed_block_keeps_job(blk, i, hash_cursor) ==
    [write_job |-> TRUE, flushed_to_disk |-> TRUE, buf_holder |-> ~(i < hash_cursor),
     job_buf |-> blk.job_buf,
     held_buf |-> IF i < hash_cursor THEN 0 ELSE blk.job_buf]

flushed_block(blk, i, hash_cursor) ==
    [write_job |-> FALSE, flushed_to_disk |-> TRUE, buf_holder |-> ~(i < hash_cursor),
     job_buf |-> 0,
     held_buf |-> IF i < hash_cursor THEN 0 ELSE blk.job_buf]

apply_flushed(e, first, bits, hash_cursor) ==
    [b \in DOMAIN e.blocks |->
        IF b \in bits THEN flushed_block(e.blocks[b], b - first, hash_cursor)
        ELSE e.blocks[b]]

\* scope_end of the writer call: lock, unpin, m_flushing_blocks -= num_blocks
unpin_keeps_count(c, loc, num_blocks) ==
    modify(c, loc, [c.p[loc] EXCEPT !.flushing = FALSE])

unpin(c, loc, num_blocks) ==
    [modify(c, loc, [c.p[loc] EXCEPT !.flushing = FALSE]) EXCEPT !.mf = c.mf - num_blocks]

\* if (piece_iter->clear_piece) { clear_piece_impl; clear_piece_fun(...) }
parked_clear(c, loc) ==
    LET e == c.p[loc] IN
    IF e.clear_piece = 0 THEN c
    ELSE [modify(c, loc, [clear_piece_impl(e) EXCEPT !.clear_piece = 0])
            EXCEPT !.mb = clear_piece_count(c, loc),
                   !.cb = Append(c.cb, [job |-> e.clear_piece,
                                        aborted |-> aborted_jobs(e)])]

\* the blocks are updated in place, then the cursor (and in phase A the
\* ready flag) through modify; m_blocks -= count; the parked clear
flushed_piece(c, th, t, bits, phase_A) ==
    LET loc == th[t].loc
        first == th[t].first
        c1 == unpin(c, loc, th[t].num_blocks)
        e1 == c1.p[loc]
        blocks == apply_flushed(e1, first, bits, th[t].hash_cursor)
        e2 == [e1 EXCEPT !.blocks = blocks,
                         !.flushed_cursor = compute_flushed_cursor(blocks, first),
                         !.ready_to_flush = IF phase_A THEN compute_ready_to_flush(blocks)
                                            ELSE e1.ready_to_flush]
        c2 == [modify(c1, loc, e2) EXCEPT !.mb = c1.mb - Cardinality(bits)]
    IN  parked_clear(c2, loc)

\* ---------------------------------------------------------- flush_to_disk
\* if (piece_iter->flushing) continue;  -- in all three loops and in
\* flush_storage: a piece another thread is flushing is skipped
skip_unpinned(e) == FALSE

skip_flushing(e) == e.flushing

NoPin == [phase |-> "return", loc |-> <<0, 0>>]

\* if (m_blocks - m_flushing_blocks <= target_blocks) return;
flush_done_below(c, target) == c.mb - c.mf < target

flush_done(c, target) == c.mb - c.mf <= target

\* the three loops of flush_to_disk from position k of the phase's view up
\* to the next piece they pin, or the return
RECURSIVE flush_scan(_, _, _, _)
flush_scan(c, phase, k, target) ==
    IF phase = "A"
    THEN IF k > Len(c.v2) THEN flush_scan(c, "B", 1, target)
         ELSE LET e == c.p[c.v2[k]] IN
              IF skip_flushing(e) THEN flush_scan(c, "A", k + 1, target)
              ELSE IF ~e.ready_to_flush THEN flush_scan(c, "B", 1, target)
              ELSE [phase |-> "A", loc |-> c.v2[k]]
    ELSE IF phase = "B"
    THEN IF k > Len(c.v1) THEN flush_scan(c, "C", 1, target)
         ELSE IF flush_done(c, target) THEN NoPin
         ELSE LET e == c.p[c.v1[k]] IN
              IF skip_flushing(e) THEN flush_scan(c, "B", k + 1, target)
              ELSE IF e.hasher_cursor - e.flushed_cursor <= 0
              THEN flush_scan(c, "C", 1, target)
              ELSE [phase |-> "B", loc |-> c.v1[k]]
    ELSE IF k > Len(view0(c)) THEN NoPin
         ELSE IF flush_done(c, target) THEN NoPin
         ELSE LET e == c.p[view0(c)[k]] IN
              IF skip_flushing(e) \/ count_jobs(e.blocks) = 0
              THEN flush_scan(c, "C", k + 1, target)
              ELSE [phase |-> "C", loc |-> view0(c)[k]]

\* from the decision to flush a piece to l.unlock()
flush_pin(c, th, t, r, target) ==
    IF r.phase = "return" THEN [c |-> c, th |-> [th EXCEPT ![t] = Idle]]
    ELSE
    LET e == c.p[r.loc]
        num_blocks == IF r.phase = "A" THEN blocks_in_piece(r.loc)
                      ELSE IF r.phase = "B" THEN e.hasher_cursor - e.flushed_cursor
                      ELSE count_jobs(e.blocks)
        c1 == modify(c, r.loc, [e EXCEPT !.flushing = TRUE])
    IN  [c |-> [c1 EXCEPT !.mf = c1.mf + num_blocks],
         th |-> [th EXCEPT ![t] = [Idle EXCEPT
                    !.pc = IF r.phase = "A" THEN "flush_A"
                           ELSE IF r.phase = "B" THEN "flush_B" ELSE "flush_C",
                    !.loc = r.loc,
                    !.num_blocks = num_blocks,
                    !.hash_cursor = e.hasher_cursor,
                    !.first = IF r.phase = "B" THEN e.flushed_cursor ELSE 0,
                    !.target = target]]]

flush_to_disk_begin(t, target) ==
    /\ thr[t].pc = "idle"
    /\ LET r == flush_pin(Cache, thr, t, flush_scan(Cache, "A", 1, target), target)
       IN  Commit(r.c, r.th)

\* phase A from the return of the writer to the next unlock or the return
flush_A_locked(c, th, t, bits) ==
    LET loc == th[t].loc
        c1 == flushed_piece(c, th, t, bits, TRUE)
        pos == IndexOf(c1.v2, loc)
        erased == c1.p[loc].piece_hash_returned
        c2 == IF erased THEN erase(c1, loc) ELSE c1
        th2 == IF erased THEN dangle(th, loc) ELSE th
        next == IF erased THEN pos ELSE pos + 1
    IN  IF Cardinality(bits) < th[t].num_blocks
        THEN [c |-> c2, th |-> [th2 EXCEPT ![t] = Idle]]
        ELSE flush_pin(c2, th2, t, flush_scan(c2, "A", next, th[t].target), th[t].target)

\* phase B likewise; ++piece_iter follows the node to where modify left it
flush_B_locked(c, th, t, bits) ==
    LET loc == th[t].loc
        c1 == flushed_piece(c, th, t, bits, FALSE)
        next == IndexOf(c1.v1, loc) + 1
    IN  IF Cardinality(bits) < th[t].num_blocks
        THEN [c |-> c1, th |-> [th EXCEPT ![t] = Idle]]
        ELSE flush_pin(c1, th, t, flush_scan(c1, "B", next, th[t].target), th[t].target)

\* phase C likewise
flush_C_locked(c, th, t, bits) ==
    LET loc == th[t].loc
        c1 == flushed_piece(c, th, t, bits, FALSE)
        next == IndexOf(view0(c1), loc) + 1
    IN  IF Cardinality(bits) < th[t].num_blocks
        THEN [c |-> c1, th |-> [th EXCEPT ![t] = Idle]]
        ELSE flush_pin(c1, th, t, flush_scan(c1, "C", next, th[t].target), th[t].target)

\* the writer f returns with the bits it set; the thread locks again
flush_to_disk_written(t) ==
    /\ thr[t].pc \in {"flush_A", "flush_B", "flush_C"}
    /\ \E bits \in SUBSET writable(m_pieces[thr[t].loc], thr[t].first) :
         \E r \in {IF thr[t].pc = "flush_A" THEN flush_A_locked(Cache, thr, t, bits)
                   ELSE IF thr[t].pc = "flush_B" THEN flush_B_locked(Cache, thr, t, bits)
                   ELSE flush_C_locked(Cache, thr, t, bits)} :
             Commit(r.c, r.th)

\* clear_piece_fun(std::move(aborted), clear_piece) is called with l held.
\* The callback calls a public operation of the cache on the same thread:
\* that operation starts with std::unique_lock<std::mutex> l(m_mutex) on
\* the mutex its own thread owns, and std::mutex is not recursive.
clear_cb_reenters(t) ==
    /\ thr[t].pc \in FlushWindows
    /\ m_pieces[thr[t].loc].clear_piece # 0
    /\ \E bits \in SUBSET writable(m_pieces[thr[t].loc], thr[t].first) :
          Commit(flushed_piece(Cache, thr, t, bits, thr[t].pc = "flush_A"),
                 [thr EXCEPT ![t].pc = "clear_cb"])

\* ---------------------------------------------------------- flush_storage
\* range_view.equal_range(storage): the piece indices cached for the storage
storage_pieces(c, storage) ==
    LET v == view0(c) IN
    [k \in 1 .. Cardinality({l \in DOMAIN c.p : l[1] = storage}) |->
        SelectSeq(v, LAMBDA l : l[1] = storage)[k][2]]

\* the loop over `pieces` up to the next piece it pins, or the return
RECURSIVE flush_storage_scan(_, _, _, _, _)
flush_storage_scan(c, th, t, storage, pieces) ==
    IF pieces = <<>> THEN [c |-> c, th |-> [th EXCEPT ![t] = Idle]]
    ELSE
    LET loc == <<storage, Head(pieces)>> IN
    IF \/ loc \notin DOMAIN c.p
       \/ skip_flushing(c.p[loc])
       \/ count_jobs(c.p[loc].blocks) = 0
    THEN flush_storage_scan(c, th, t, storage, Tail(pieces))
    ELSE
    LET e == c.p[loc]
        num_blocks == count_jobs(e.blocks)
        c1 == modify(c, loc, [e EXCEPT !.flushing = TRUE])
    IN  [c |-> [c1 EXCEPT !.mf = c1.mf + num_blocks],
         th |-> [th EXCEPT ![t] = [Idle EXCEPT !.pc = "flush_storage",
                                              !.loc = loc,
                                              !.num_blocks = num_blocks,
                                              !.hash_cursor = e.hasher_cursor,
                                              !.pieces = Tail(pieces)]]]

flush_storage_begin(t, storage) ==
    /\ thr[t].pc = "idle"
    /\ LET r == flush_storage_scan(Cache, thr, t, storage, storage_pieces(Cache, storage))
       IN  Commit(r.c, r.th)

\* from the return of the writer to the next unlock or the return: the
\* piece is erased whatever the writer wrote
flush_storage_locked(c, th, t, bits) ==
    LET loc == th[t].loc
        c1 == flushed_piece(c, th, t, bits, FALSE)
    IN  flush_storage_scan(erase(c1, loc), dangle(th, loc), t, loc[1], th[t].pieces)

flush_storage_written(t) ==
    /\ thr[t].pc = "flush_storage"
    /\ \E bits \in SUBSET writable(m_pieces[thr[t].loc], 0) :
         \E r \in {flush_storage_locked(Cache, thr, t, bits)} : Commit(r.c, r.th)

\* ------------------------------------------------------------------ Next
\* Spec: two threads and the callers of insert, try_clear_piece and
\* try_hash_piece, in every interleaving, on one piece.
Next ==
    \/ \E loc \in ConcLocs : \E b \in 0 .. (blocks_in_piece(loc) - 1) :
          \E bytes \in Bufs : insert(loc, b, bytes)
    \/ \E loc \in ConcLocs, j \in ClearJobs : try_clear_piece(loc, j)
    \/ \E loc \in ConcLocs : try_hash_piece(loc)
    \/ \E t \in Threads, loc \in ConcLocs : kick_hasher_begin(t, loc)
    \/ \E t \in Threads : kick_hasher_hash(t)
    \/ \E t \in Threads : kick_hasher_end(t)
    \/ \E t \in Threads, loc \in ConcLocs : hash_piece_begin(t, loc)
    \/ \E t \in Threads : hash_piece_end(t)
    \/ \E t \in Threads, target \in Targets : flush_to_disk_begin(t, target)
    \/ \E t \in Threads : flush_to_disk_written(t)
    \/ \E t \in Threads, storage \in Storages : flush_storage_begin(t, storage)
    \/ \E t \in Threads : flush_storage_written(t)
    \/ \E t \in Threads : clear_cb_reenters(t)

Spec == Init /\ [][Next]_vars

\* SpecProtocol: Spec with callers that keep to the protocol of
\* try_clear_piece: it is only called on a piece that is not hashing.
NextProtocol ==
    \/ \E loc \in ConcLocs : \E b \in 0 .. (blocks_in_piece(loc) - 1) :
          \E bytes \in Bufs : insert(loc, b, bytes)
    \/ \E loc \in ConcLocs, j \in ClearJobs :
          try_clear_piece(loc, j) /\ ~m_pieces[loc].hashing
    \/ \E loc \in ConcLocs : try_hash_piece(loc)
    \/ \E t \in Threads, loc \in ConcLocs : kick_hasher_begin(t, loc)
    \/ \E t \in Threads : kick_hasher_hash(t)
    \/ \E t \in Threads : kick_hasher_end(t)
    \/ \E t \in Threads, loc \in ConcLocs : hash_piece_begin(t, loc)
    \/ \E t \in Threads : hash_piece_end(t)
    \/ \E t \in Threads, target \in Targets : flush_to_disk_begin(t, target)
    \/ \E t \in Threads : flush_to_disk_written(t)
    \/ \E t \in Threads, storage \in Storages : flush_storage_begin(t, storage)
    \/ \E t \in Threads : flush_storage_written(t)
    \/ \E t \in Threads : clear_cb_reenters(t)

SpecProtocol == Init /\ [][NextProtocol]_vars

\* SpecLive: Spec with every thread that is inside an operation running on:
\* a hashing loop, a callback or a writer returns and the operation takes
\* the mutex again.  Nothing obliges a caller to start an operation.
Progress ==
    \A t \in Threads :
        /\ WF_vars(kick_hasher_hash(t))
        /\ WF_vars(kick_hasher_end(t))
        /\ WF_vars(hash_piece_end(t))
        /\ WF_vars(flush_to_disk_written(t))
        /\ WF_vars(flush_storage_written(t))

SpecLive == Init /\ [][Next]_vars /\ Progress

\* SpecSeq: the operations one after the other (no operation starts while
\* another is inside its window), on the pieces of two storages.
AllIdle == \A t \in Threads : thr[t].pc = "idle"

NextSeq ==
    \/ AllIdle /\ \E loc \in Locs : \E b \in 0 .. (blocks_in_piece(loc) - 1) :
                     \E bytes \in Bufs : insert(loc, b, bytes)
    \/ AllIdle /\ \E loc \in Locs, j \in ClearJobs : try_clear_piece(loc, j)
    \/ AllIdle /\ \E loc \in Locs : try_hash_piece(loc)
    \/ AllIdle /\ \E loc \in Locs : kick_hasher_begin("t1", loc)
    \/ kick_hasher_hash("t1")
    \/ kick_hasher_end("t1")
    \/ AllIdle /\ \E loc \in Locs : hash_piece_begin("t1", loc)
    \/ hash_piece_end("t1")
    \/ AllIdle /\ \E target \in Targets : flush_to_disk_begin("t1", target)
    \/ flush_to_disk_written("t1")
    \/ AllIdle /\ \E storage \in Storages : flush_storage_begin("t1", storage)
    \/ flush_storage_written("t1")

SpecSeq == Init /\ [][NextSeq]_vars

\* SpecGet: the operations one after the other on one piece, the write
\* jobs carrying one of two buffer contents, and a reader that calls get,
\* get2 and hash2 at any time, also while an operation is inside its window.
NextGet ==
    \/ AllIdle /\ \E loc \in ConcLocs : \E b \in 0 .. (blocks_in_piece(loc) - 1) :
                     \E bytes \in GetBufs : insert(loc, b, bytes)
    \/ AllIdle /\ \E loc \in ConcLocs, j \in ClearJobs : try_clear_piece(loc, j)
    \/ AllIdle /\ \E loc \in ConcLocs : try_hash_piece(loc)
    \/ AllIdle /\ \E loc \in ConcLocs : kick_hasher_begin("t1", loc)
    \/ kick_hasher_hash("t1")
    \/ kick_hasher_end("t1")
    \/ AllIdle /\ \E loc \in ConcLocs : hash_piece_begin("t1", loc)
    \/ hash_piece_end("t1")
    \/ AllIdle /\ \E target \in Targets : flush_to_disk_begin("t1", target)
    \/ flush_to_disk_written("t1")
    \/ AllIdle /\ \E storage \in Storages : flush_storage_begin("t1", storage)
    \/ flush_storage_written("t1")
    \/ \E loc \in ConcLocs : \E b \in 0 .. (blocks_in_piece(loc) - 1) : get(loc, b)
    \/ \E loc \in ConcLocs : get2(loc, 0)
    \/ \E loc \in ConcLocs : \E b \in 0 .. (blocks_in_piece(loc) - 1) : hash2(loc, b)

SpecGet == Init /\ [][NextGet]_vars

\* =================================================================
\* Properties
\* =================================================================
\* the running threads inside a window on piece loc
InWindow(loc, windows) ==
    {t \in Threads : thr[t].pc \in windows /\ thr[t].loc = loc /\ ~thr[t].stale}

\* number of block entries over all cached pieces that hold a write job
DirtyCount ==
    Cardinality({x \in (DOMAIN m_pieces) \X (0 .. (NumBlocks + 1)) :
                    /\ x[2] \in DOMAIN m_pieces[x[1]].blocks
                    /\ m_pieces[x[1]].blocks[x[2]].write_job})

\* C1: whenever the mutex is free, m_blocks (dirty_blocks, size()) equals
\* the number of block entries of cached pieces that hold a write job, for
\* every writer that sets bits only on write jobs and returns their number.
C1_DirtyBlocksCounted == m_blocks = DirtyCount

\* C2: whenever the mutex is free, a cached piece has ready_to_flush set if
\* and only if every one of its blocks holds a write job or is flushed.
C2_ReadyIffNoGaps ==
    \A loc \in DOMAIN m_pieces :
        m_pieces[loc].ready_to_flush <=> compute_ready_to_flush(m_pieces[loc].blocks)

\* C3: at any time at most one thread (a kick_hasher pass or a hash_piece
\* callback) is inside its unlocked hashing window for a given piece.
C3_OneHasherPerPiece ==
    \A loc \in DOMAIN m_pieces : Cardinality(InWindow(loc, HashWindows)) <= 1

\* C4: at any time at most one thread has a given piece pinned for
\* flushing, the piece's flushing flag is set exactly while that thread is
\* inside its window, and a block that has been flushed holds no write job
\* again (so no writer is offered it a second time).
C4_NoDoubleFlush ==
    /\ \A loc \in Locs : Cardinality({t \in Threads : thr[t].pc \in FlushWindows
                                                     /\ thr[t].loc = loc}) <= 1
    /\ \A t \in Threads : thr[t].pc \in FlushWindows =>
            /\ ~thr[t].stale
            /\ thr[t].loc \in DOMAIN m_pieces
            /\ m_pieces[thr[t].loc].flushing
    /\ \A loc \in DOMAIN m_pieces :
            /\ m_pieces[loc].flushing =>
                  \E t \in Threads : thr[t].pc \in FlushWindows /\ thr[t].loc = loc
            /\ \A b \in DOMAIN m_pieces[loc].blocks :
                  ~(m_pieces[loc].blocks[b].flushed_to_disk
                    /\ m_pieces[loc].blocks[b].write_job)

\* C4 witness: two threads are flushing at once, one of them this piece,
\* which has a block already flushed and a block still to write
C4_Witness ==
    /\ \A t \in Threads : thr[t].pc \in FlushWindows \cup {"idle"}
    /\ \E t \in Threads : thr[t].pc \in FlushWindows
    /\ \E loc \in DOMAIN m_pieces :
          /\ m_pieces[loc].flushing
          /\ \E b \in DOMAIN m_pieces[loc].blocks : m_pieces[loc].blocks[b].flushed_to_disk
          /\ \E b \in DOMAIN m_pieces[loc].blocks : m_pieces[loc].blocks[b].write_job

\* the step is taken by thread t, which was inside one of the windows
Leaves(t, windows) == thr[t].pc \in windows /\ thr'[t] # thr[t]

\* C5: a flush pass releases the buffer of a block it just persisted only
\* if the block's index is below the piece's hasher_cursor (the piece stays
\* cached and no parked clear ran), and no resident buffer that a
\* kick_hasher pass captured is released while that pass is in its window.
C5_Step ==
    /\ \A t \in Threads :
          LET loc == thr[t].loc IN
          ( /\ Leaves(t, FlushWindows)
            /\ m_pieces[loc].clear_piece = 0
            /\ loc \in DOMAIN m_pieces' ) =>
          \A b \in DOMAIN m_pieces[loc].blocks :
              ( /\ m_pieces[loc].blocks[b].write_job
                /\ m_pieces'[loc].blocks[b].flushed_to_disk
                /\ ~buf(m_pieces'[loc].blocks[b]) ) =>
              b < m_pieces'[loc].hasher_cursor
    /\ \A t \in Threads :
          LET loc == thr[t].loc IN
          ( /\ thr[t].pc = "kick_hasher"
            /\ ~thr[t].stale
            /\ thr'[t].pc = "kick_hasher"
            /\ thr'[t].cursor = thr[t].cursor ) =>
          \A b \in thr[t].cursor .. (thr[t].cursor + thr[t].i - 1) :
              buf(m_pieces[loc].blocks[b]) =>
                  (loc \in DOMAIN m_pieces' /\ buf(m_pieces'[loc].blocks[b]))

C5_BuffersKeptForHasher == [][C5_Step]_vars

\* flush_storage run to its return by one thread with nothing else
\* running: the caches it can leave, over every writer
RECURSIVE flush_storage_alone(_, _)
flush_storage_alone(r, t) ==
    IF r.th[t].pc = "idle" THEN {r.c}
    ELSE UNION {flush_storage_alone(flush_storage_locked(r.c, r.th, t, bits), t) :
                   bits \in SUBSET writable(r.c.p[r.th[t].loc], 0)}

\* C6: after flush_storage(writer, storage, clear_cb) returns the cache
\* holds no piece of that storage, and the pieces of every other storage are
\* left exactly as they were.
C6_FlushStorageRemovesAll ==
    AllIdle =>
        \A storage \in Storages :
            \A c \in flush_storage_alone(
                        flush_storage_scan(Cache, thr, "t1", storage,
                                           storage_pieces(Cache, storage)), "t1") :
                /\ \A l \in DOMAIN c.p : l[1] # storage
                /\ \A l \in Locs : l[1] # storage =>
                      /\ l \in DOMAIN c.p <=> l \in DOMAIN m_pieces
                      /\ l \in DOMAIN m_pieces => c.p[l] = m_pieces[l]

\* flush_to_disk run to its return by one thread with nothing else running,
\* with a writer that persists every block with a write job it is offered
RECURSIVE flush_to_disk_alone(_, _)
flush_to_disk_alone(r, t) ==
    IF r.th[t].pc = "idle" THEN r.c
    ELSE LET bits == writable(r.c.p[r.th[t].loc], r.th[t].first) IN
         flush_to_disk_alone(
            IF r.th[t].pc = "flush_A" THEN flush_A_locked(r.c, r.th, t, bits)
            ELSE IF r.th[t].pc = "flush_B" THEN flush_B_locked(r.c, r.th, t, bits)
            ELSE flush_C_locked(r.c, r.th, t, bits), t)

\* C7: with a writer that persists every block with a write job it is
\* offered and nothing running concurrently, flush_to_disk(writer, target,
\* clear_cb) returns with dirty_blocks <= target (here from every state in
\* which dirty_blocks counts the write jobs exactly).
C7_FlushReachesTarget ==
    (AllIdle /\ C1_DirtyBlocksCounted) =>
        \A target \in Targets :
            flush_to_disk_alone(
                flush_pin(Cache, thr, "t1", flush_scan(Cache, "A", 1, target), target),
                "t1").mb <= target

\* C8: flush_to_disk erases a piece only when piece_hash_returned is set and
\* no block of it is left with a write job, i.e. the writer persisted every
\* write job of the piece (m_blocks drops by their number).
C8_Step ==
    \A t \in Threads :
        LET loc == thr[t].loc IN
        ( /\ Leaves(t, {"flush_A", "flush_B", "flush_C"})
          /\ loc \notin DOMAIN m_pieces' ) =>
        /\ m_pieces[loc].piece_hash_returned
        /\ m_blocks' = m_blocks - count_jobs(m_pieces[loc].blocks)

C8_EraseOnlyFlushedAndHashed == [][C8_Step]_vars

\* C9: try_clear_piece on a flushing piece returns false, parks the job and
\* aborts nothing; the flush pass that has the piece pinned runs the clear
\* on its completion and calls clear_cb once, with the write jobs aborted
\* and that job, leaving the slot empty; and a parked job stays parked until
\* it is handed to clear_cb, so every parked job is delivered.
C9_Step ==
    /\ \A loc \in DOMAIN m_pieces : m_pieces[loc].flushing =>
          \A j \in ClearJobs :
              /\ ~try_clear_piece_result(Cache, loc)
              /\ try_clear_piece_cache(Cache, loc, j)
                    = [Cache EXCEPT !.p[loc].clear_piece = j]
    /\ \A t \in Threads :
          LET loc == thr[t].loc
              j == m_pieces[loc].clear_piece IN
          ( Leaves(t, FlushWindows) /\ j # 0 ) =>
              /\ Len(clear_cb') = 1
              /\ clear_cb'[1].job = j
              /\ clear_cb'[1].aborted \subseteq aborted_jobs(m_pieces[loc])
              /\ m_blocks' = m_blocks - count_jobs(m_pieces[loc].blocks)
              /\ loc \in DOMAIN m_pieces' => m_pieces'[loc].clear_piece = 0
    /\ clear_cb' # <<>> =>
          \E t \in Threads : Leaves(t, FlushWindows) /\ m_pieces[thr[t].loc].clear_piece # 0
    /\ \A loc \in DOMAIN m_pieces :
          LET j == m_pieces[loc].clear_piece IN
          j # 0 =>
              \/ loc \in DOMAIN m_pieces' /\ m_pieces'[loc].clear_piece = j
              \/ \E k \in 1 .. Len(clear_cb') : clear_cb'[k].job = j

C9_ParkedClearDelivered == [][C9_Step]_vars

\* C10: insert(loc, idx, write_job) into a vacant slot creates the piece if
\* it is not cached, puts the job into slot idx and changes no other slot,
\* adds exactly 1 to m_blocks, and returns true if and only if idx = 0 or
\* this insert took the piece from ready_to_flush = false to true.
C10_Insert ==
    \A loc \in Locs :
        \A idx \in 0 .. (blocks_in_piece(loc) - 1) :
            insert_pre(Cache, loc, idx) =>
                LET c1 == insert_cache(Cache, loc, idx)
                    was_cached == loc \in DOMAIN m_pieces
                    was_ready == was_cached /\ m_pieces[loc].ready_to_flush
                    before == IF was_cached THEN m_pieces[loc].blocks
                              ELSE cached_piece_entry(loc).blocks
                IN  /\ loc \in DOMAIN c1.p
                    /\ DOMAIN c1.p = (DOMAIN m_pieces) \cup {loc}
                    /\ c1.p[loc].blocks = [before EXCEPT ![idx].write_job = TRUE]
                    /\ c1.mb = m_blocks + 1
                    /\ insert_result(Cache, loc, idx)
                          <=> (idx = 0 \/ (~was_ready /\ c1.p[loc].ready_to_flush))

\* C10 witness: a cached piece that is not ready, with blocks flushed by
\* an earlier pass, into which an insert at an index other than 0 returns
\* true because it completes the piece
C10_Witness ==
    \E loc \in DOMAIN m_pieces :
        \E idx \in DOMAIN m_pieces[loc].blocks :
            /\ idx # 0
            /\ insert_pre(Cache, loc, idx)
            /\ ~m_pieces[loc].ready_to_flush
            /\ m_pieces[loc].blocks[0].flushed_to_disk
            /\ insert_result(Cache, loc, idx)
            /\ insert_cache(Cache, loc, idx).p[loc].ready_to_flush

\* C15: whenever the mutex is free no block entry holds both a pending
\* write job and a non-empty buf_holder.
C15_JobOrHolder ==
    \A loc \in DOMAIN m_pieces :
        \A b \in DOMAIN m_pieces[loc].blocks :
            ~(m_pieces[loc].blocks[b].write_job /\ m_pieces[loc].blocks[b].buf_holder)

\* C15 witness: a block whose buffer moved from its write job to buf_holder
\* (flushed, not yet hashed) next to a block that holds a write job
C15_Witness ==
    \E loc \in DOMAIN m_pieces :
        /\ \E b \in DOMAIN m_pieces[loc].blocks :
              m_pieces[loc].blocks[b].buf_holder /\ m_pieces[loc].blocks[b].flushed_to_disk
        /\ \E b \in DOMAIN m_pieces[loc].blocks : m_pieces[loc].blocks[b].write_job

\* C16: whenever the mutex is free, every block of a cached piece with an
\* index below flushed_cursor holds no write job and is flushed_to_disk.
C16_BelowFlushedCursor ==
    \A loc \in DOMAIN m_pieces :
        \A b \in DOMAIN m_pieces[loc].blocks :
            b < m_pieces[loc].flushed_cursor =>
                /\ ~m_pieces[loc].blocks[b].write_job
                /\ m_pieces[loc].blocks[b].flushed_to_disk

\* C16 witness: a piece whose flushed_cursor was advanced by a flush pass
\* while a later block still holds a write job
C16_Witness ==
    \E loc \in DOMAIN m_pieces :
        /\ m_pieces[loc].flushed_cursor > 0
        /\ \E b \in DOMAIN m_pieces[loc].blocks : m_pieces[loc].blocks[b].write_job

\* C17: whenever the mutex is free, m_flushing_blocks is at most the sum of
\* blocks_in_piece over the pieces whose flushing flag is set; it is 0 when
\* no piece is flushing and it is never negative.
C17_FlushingBlocksBound ==
    LET flushing == {loc \in DOMAIN m_pieces : m_pieces[loc].flushing}
        limit == (IF <<0, 0>> \in flushing THEN blocks_in_piece(<<0, 0>>) ELSE 0)
                 + (IF <<1, 0>> \in flushing THEN blocks_in_piece(<<1, 0>>) ELSE 0)
    IN  /\ m_flushing_blocks <= limit
        /\ m_flushing_blocks >= 0
        /\ flushing = {} => m_flushing_blocks = 0

\* C17 witness: a piece is pinned for flushing with fewer blocks in flight
\* than the piece has
C17_Witness ==
    \E loc \in DOMAIN m_pieces :
        /\ m_pieces[loc].flushing
        /\ m_flushing_blocks > 0
        /\ m_flushing_blocks < blocks_in_piece(loc)

\* C13: whenever a piece is not being hashed (its hashing flag is clear and
\* no thread is inside a hashing window on it), its SHA-1 context holds
\* exactly the buffers of blocks 0 .. hasher_cursor-1 folded in index order,
\* each once, since the last clear; so at hasher_cursor = blocks_in_piece
\* the context finalises to the hash of all the piece's blocks.
C13_HashOrder ==
    \A loc \in DOMAIN m_pieces :
        ( /\ ~m_pieces[loc].hashing
          /\ \A t \in Threads : ~(thr[t].pc \in HashWindows /\ thr[t].loc = loc) ) =>
            m_pieces[loc].ph = m_pieces[loc].hasher_cursor

\* C11: try_hash_piece(loc, hash_job) returns job_completed, writes the
\* final piece hash (the hash of all the piece's blocks) into the job and
\* sets piece_hash_returned exactly when the piece is cached, not hashing
\* and hasher_cursor = blocks_in_piece; it returns job_queued and hangs the
\* job on the piece exactly when the piece is cached, hashing,
\* hasher_cursor < blocks_in_piece and every block from hasher_cursor on is
\* resident; otherwise, also for an absent piece, it returns post_job and
\* changes nothing.
C11_TryHashPiece ==
    \A loc \in Locs :
        try_hash_piece_pre(Cache, loc) =>
            LET cached == loc \in DOMAIN m_pieces
                e == m_pieces[loc]
                n == blocks_in_piece(loc)
                completed == cached /\ ~e.hashing /\ e.hasher_cursor = n
                queued == /\ cached /\ e.hashing /\ e.hasher_cursor < n
                          /\ \A b \in e.hasher_cursor .. (n - 1) : buf(e.blocks[b])
                r == try_hash_piece_result(Cache, loc)
                c1 == try_hash_piece_cache(Cache, loc)
            IN  /\ r = "job_completed" <=> completed
                /\ completed =>
                      /\ try_hash_piece_hash(Cache, loc) = n
                      /\ c1 = [Cache EXCEPT !.p[loc].piece_hash_returned = TRUE]
                /\ r = "job_queued" <=> queued
                /\ queued => c1 = [Cache EXCEPT !.p[loc].hash_job = TRUE]
                /\ (~completed /\ ~queued) => (r = "post_job" /\ c1 = Cache)

\* the blocks 1, 0, 3, 2 inserted in that order into a piece of four blocks,
\* kick_hasher run after each insert: the cursor after each kick
KickExample ==
    LET loc == <<1, 0>>
        c0 == [p |-> <<>>, v1 |-> <<>>, v2 |-> <<>>, mb |-> 0, mf |-> 0,
               cb |-> <<>>, rd |-> <<>>, cj |-> <<>>]
        c1 == kick_hasher_alone(insert_cache(c0, loc, 1), loc)
        c2 == kick_hasher_alone(insert_cache(c1, loc, 0), loc)
        c3 == kick_hasher_alone(insert_cache(c2, loc, 3), loc)
        c4 == kick_hasher_alone(insert_cache(c3, loc, 2), loc)
    IN  <<c1.p[loc].hasher_cursor, c2.p[loc].hasher_cursor,
          c3.p[loc].hasher_cursor, c4.p[loc].hasher_cursor>>

\* C12: a kick_hasher call that runs with nothing else running, on a piece
\* that is cached and not hashing, leaves hasher_cursor at the first index
\* at or after the old cursor whose block is not resident (blocks_in_piece
\* if there is none) and moves it past no block that is not resident; with
\* the blocks inserted in the order 1, 0, 3, 2 and a kick after each insert
\* the cursor goes 0, 2, 2, 4.
C12_Step ==
    /\ ( /\ thr["t1"].pc = "kick_hasher"
         /\ thr["t1"].hashed
         /\ thr'["t1"].pc = "idle" ) =>
          LET loc == thr["t1"].loc
              e == m_pieces[loc]
              n == blocks_in_piece(loc)
              gaps == {b \in e.hasher_cursor .. (n - 1) : ~buf(e.blocks[b])}
              stop == IF gaps = {} THEN n ELSE CHOOSE b \in gaps : \A g \in gaps : b <= g
          IN  /\ m_pieces'[loc].hasher_cursor = stop
              /\ \A b \in e.hasher_cursor .. (m_pieces'[loc].hasher_cursor - 1) :
                    buf(e.blocks[b])
    /\ KickExample = <<0, 2, 2, 4>>

C12_KickHasherCursor == [][C12_Step]_vars

\* C12 witness: a kick_hasher pass has returned on the piece of four blocks
\* with the cursor at 2: block 2 is not resident and block 3, behind the
\* gap, is
C12_Witness ==
    /\ AllIdle
    /\ <<1, 0>> \in DOMAIN m_pieces
    /\ m_pieces[<<1, 0>>].hasher_cursor = 2
    /\ ~buf(m_pieces[<<1, 0>>].blocks[2])
    /\ buf(m_pieces[<<1, 0>>].blocks[3])
    /\ kick_hasher_alone(Cache, <<1, 0>>).p[<<1, 0>>].hasher_cursor = 2

\* C20: try_clear_piece on a cached piece that is neither flushing nor
\* hashing returns true, moves every write job of that piece into the
\* aborted queue in block-index order, lowers m_blocks by the number of jobs
\* moved, empties every buf_holder of the piece and resets ready_to_flush,
\* piece_hash_returned, hasher_cursor, flushed_cursor and the SHA-1 context;
\* every other piece and m_flushing_blocks are unchanged.
C20_TryClearPiece ==
    \A loc \in DOMAIN m_pieces :
        (~m_pieces[loc].flushing /\ ~m_pieces[loc].hashing) =>
            \A j \in ClearJobs :
                LET e == m_pieces[loc]
                    c1 == try_clear_piece_cache(Cache, loc, j)
                    e1 == c1.p[loc]
                    aborted == clear_piece_aborted(e, 0)
                IN  /\ try_clear_piece_result(Cache, loc)
                    /\ {aborted[k] : k \in 1 .. Len(aborted)}
                          = {b \in DOMAIN e.blocks : e.blocks[b].write_job}
                    /\ \A k \in 1 .. (Len(aborted) - 1) : aborted[k] < aborted[k + 1]
                    /\ c1.mb = m_blocks - Len(aborted)
                    /\ \A b \in DOMAIN e1.blocks :
                          ~e1.blocks[b].write_job /\ ~e1.blocks[b].buf_holder
                    /\ ~e1.ready_to_flush
                    /\ ~e1.piece_hash_returned
                    /\ e1.hasher_cursor = 0
                    /\ e1.flushed_cursor = 0
                    /\ e1.ph = 0
                    /\ e1.clear_piece = e.clear_piece
                    /\ DOMAIN c1.p = DOMAIN m_pieces
                    /\ \A l \in DOMAIN m_pieces : l # loc => c1.p[l] = m_pieces[l]
                    /\ c1.mf = m_flushing_blocks
                    /\ c1.cb = <<>>

\* C20 witness: a piece that is neither flushing nor hashing with two write
\* jobs to abort, a held buffer and both cursors advanced, next to another
\* cached piece
C20_Witness ==
    /\ AllIdle
    /\ DOMAIN m_pieces = Locs
    /\ \E loc \in DOMAIN m_pieces :
          /\ ~m_pieces[loc].flushing /\ ~m_pieces[loc].hashing
          /\ Len(clear_piece_aborted(m_pieces[loc], 0)) = 2
          /\ \E b \in DOMAIN m_pieces[loc].blocks : m_pieces[loc].blocks[b].buf_holder
          /\ m_pieces[loc].hasher_cursor > 0
          /\ m_pieces[loc].flushed_cursor > 0

\* C14: get(loc, idx, fn) returns true and invokes fn exactly once if and
\* only if block idx of piece loc is resident (a write job or buf_holder
\* holds its buffer), otherwise it returns false and does not invoke fn;
\* the bytes passed to fn are those of the write job most recently inserted
\* at (loc, idx): they are the new job's bytes once a job is inserted, and
\* they do not change while the block stays resident, flushed or not.
C14_Step ==
    /\ \A loc \in Locs :
          \A idx \in 0 .. (blocks_in_piece(loc) - 1) :
              LET resident == /\ loc \in DOMAIN m_pieces
                              /\ \/ m_pieces[loc].blocks[idx].write_job
                                 \/ m_pieces[loc].blocks[idx].buf_holder
                  c1 == get_cache(Cache, loc, idx)
              IN  /\ get_result(Cache, loc, idx) <=> resident
                  /\ resident => /\ Len(c1.rd) = 1
                                 /\ c1.rd[1].bufs = <<buf_bytes(m_pieces[loc].blocks[idx])>>
                                 /\ c1.rd[1].bufs[1] # 0
                                 /\ [c1 EXCEPT !.rd = <<>>] = Cache
                  /\ ~resident => c1 = Cache
    /\ \A loc \in DOMAIN m_pieces' :
          \A idx \in DOMAIN m_pieces'[loc].blocks :
              LET after == m_pieces'[loc].blocks[idx]
                  was_cached == loc \in DOMAIN m_pieces
                  inserted == /\ after.write_job
                              /\ ~(was_cached /\ m_pieces[loc].blocks[idx].write_job)
              IN  /\ inserted => buf_bytes(after) = after.job_buf
                  /\ (buf(after) /\ ~inserted) =>
                        /\ was_cached
                        /\ buf_bytes(after) = buf_bytes(m_pieces[loc].blocks[idx])

C14_GetReturnsInsertedBytes == [][C14_Step]_vars

\* C14 witness: get has just passed fn the bytes of a block that was
\* flushed (its buffer is owned by buf_holder), inserted with the second
\* buffer content, while the piece's other block holds other bytes
C14_Witness ==
    /\ Len(reader_cb) = 1
    /\ reader_cb[1].op = "get"
    /\ reader_cb[1].bufs = <<2>>
    /\ \E loc \in DOMAIN m_pieces :
          /\ m_pieces[loc].blocks[1].buf_holder
          /\ m_pieces[loc].blocks[1].flushed_to_disk
          /\ m_pieces[loc].blocks[1].held_buf = 2
          /\ buf_bytes(m_pieces[loc].blocks[0]) = 1

\* C18 (as the code has it): the reader callbacks of get and get2 are
\* invoked while the mutex is held, as clear_cb is; the fallback of hash2 is
\* invoked after the mutex is released; and while a thread is inside the
\* callback of hash_piece or inside a writer of flush_to_disk or
\* flush_storage, it does not hold the mutex: another caller can lock it.
C18_ReadersUnderMutex ==
    /\ \A k \in 1 .. Len(reader_cb) :
          reader_cb[k].locked <=> reader_cb[k].op \in {"get", "get2"}
    /\ \A t \in Threads :
          (thr[t].pc \in {"hash_piece"} \cup FlushWindows /\ mutex_free) =>
              ENABLED get(<<0, 0>>, 0)

\* C18 witness: get has just invoked its callback under the mutex while a
\* thread is inside a writer of a flush pass
C18_Witness ==
    /\ Len(reader_cb) = 1
    /\ reader_cb[1].op = "get"
    /\ reader_cb[1].locked
    /\ \E t \in Threads : thr[t].pc \in FlushWindows

\* C18 (as stated): no caller-supplied callback other than clear_cb is
\* invoked while the mutex is held: the reader callbacks of get and get2 and
\* the fallback of hash2 are invoked with the mutex released, and the
\* callback of hash_piece and the writers run with the mutex released.
C18_NoCallbackUnderMutex ==
    /\ \A k \in 1 .. Len(reader_cb) : ~reader_cb[k].locked
    /\ \A t \in Threads :
          (thr[t].pc \in {"hash_piece"} \cup FlushWindows /\ mutex_free) =>
              ENABLED hash2(<<0, 0>>, 0)

\* C19: when a flush pass invokes clear_cb and the callback calls a public
\* operation of the cache (get, try_clear_piece, insert) on the same thread,
\* that operation can acquire the mutex and run.
C19_ClearCbMayReenter ==
    \A t \in Threads :
        thr[t].pc = "clear_cb" =>
            ENABLED (\/ get(<<0, 0>>, 0)
                     \/ \E loc \in ConcLocs, j \in ClearJobs : try_clear_piece(loc, j)
                     \/ \E loc \in ConcLocs : \E b \in 0 .. (blocks_in_piece(loc) - 1) :
                            \E bytes \in Bufs : insert(loc, b, bytes))

\* C21: for a location that is not cached, get returns false, get2 returns
\* 0, hash_piece returns false, none of the three invoking its callback,
\* try_hash_piece returns post_job, try_clear_piece returns true with an
\* empty aborted queue, hash2 returns the result of the fallback, and
\* kick_hasher returns without posting a job; none of them creates a piece
\* entry or changes m_blocks, m_flushing_blocks or any piece.
C21_AbsentPiece ==
    \A loc \in Locs \ DOMAIN m_pieces :
        /\ \A idx \in 0 .. (blocks_in_piece(loc) - 1) :
              /\ ~get_result(Cache, loc, idx)
              /\ get_cache(Cache, loc, idx) = Cache
              /\ hash2_result(Cache, loc, idx) = "fallback"
              /\ hash2_cache(Cache, loc, idx)
                    = [Cache EXCEPT !.rd = <<[op |-> "hash2", locked |-> FALSE,
                                              bufs |-> <<>>]>>]
        /\ \A idx \in 0 .. (blocks_in_piece(loc) - 2) :
              /\ ~get2_called(Cache, loc, idx)
              /\ get2_cache(Cache, loc, idx) = Cache
        /\ ~hash_piece_result(Cache, loc)
        /\ hash_piece_cache(Cache, loc) = Cache
        /\ try_hash_piece_result(Cache, loc) = "post_job"
        /\ try_hash_piece_cache(Cache, loc) = Cache
        /\ try_clear_piece_result(Cache, loc)
        /\ try_clear_piece_aborted(Cache, loc) = <<>>
        /\ \A j \in ClearJobs : try_clear_piece_cache(Cache, loc, j) = Cache
        /\ kick_hasher_alone(Cache, loc) = Cache

\* C21 witness: one location is not cached while the other piece is cached
\* with dirty blocks and is being flushed
C21_Witness ==
    \E loc \in Locs \ DOMAIN m_pieces :
        \E other \in DOMAIN m_pieces :
            /\ m_blocks > 0
            /\ m_pieces[other].flushing
            /\ m_flushing_blocks > 0

\* C22: phase A of flush_to_disk flushes completed pieces regardless of
\* target: with a writer that persists every block with a write job it is
\* offered and nothing running concurrently, after flush_to_disk returns no
\* piece that was ready_to_flush (and not flushing) on entry still holds a
\* write job, whatever the target and m_blocks are.
C22_PhaseAFlushesReady ==
    AllIdle =>
        \A target \in Targets :
            LET c == flush_to_disk_alone(
                        flush_pin(Cache, thr, "t1", flush_scan(Cache, "A", 1, target), target),
                        "t1")
            IN  \A loc \in DOMAIN m_pieces :
                    (m_pieces[loc].ready_to_flush /\ ~m_pieces[loc].flushing) =>
                        \/ loc \notin DOMAIN c.p
                        \/ count_jobs(c.p[loc].blocks) = 0

\* three of the four blocks of a piece inserted and hashed (hasher_cursor =
\* 3), then flush_to_disk with target 0 and a writer that writes every job:
\* flushed_cursor and m_blocks when it returns
FlushExample ==
    LET loc == <<1, 0>>
        c0 == [p |-> <<>>, v1 |-> <<>>, v2 |-> <<>>, mb |-> 0, mf |-> 0,
               cb |-> <<>>, rd |-> <<>>, cj |-> <<>>]
        c1 == insert_cache(insert_cache(insert_cache(c0, loc, 0), loc, 1), loc, 2)
        c2 == kick_hasher_alone(c1, loc)
        idle == [t \in Threads |-> Idle]
        c3 == flush_to_disk_alone(
                 flush_pin(c2, idle, "t1", flush_scan(c2, "A", 1, 0), 0), "t1")
    IN  <<c2.p[loc].hasher_cursor, c3.p[loc].flushed_cursor, c3.mb>>

\* C23: when a flush pass of flush_to_disk unpins a piece (no clear was
\* parked on it), flushed_cursor is the number of contiguous blocks from
\* index 0 that are flushed to disk and is not lower than before the pass;
\* a phase B pass on a piece whose flushed_cursor was f that leaves k
\* further contiguous blocks from f flushed leaves flushed_cursor = f + k;
\* and with 3 of 4 blocks inserted, hasher_cursor = 3 and target 0 the
\* result is flushed_cursor = 3 and m_blocks = 0.
C23_Step ==
    /\ \A t \in Threads :
          LET loc == thr[t].loc IN
          ( /\ Leaves(t, {"flush_A", "flush_B", "flush_C"})
            /\ m_pieces[loc].clear_piece = 0
            /\ loc \in DOMAIN m_pieces' ) =>
              LET e == m_pieces[loc]
                  e1 == m_pieces'[loc]
              IN  /\ e1.flushed_cursor >= e.flushed_cursor
                  /\ e1.flushed_cursor = compute_flushed_cursor(e1.blocks, 0)
                  /\ thr[t].pc = "flush_B" =>
                        e1.flushed_cursor
                          = e.flushed_cursor
                            + compute_flushed_cursor(e1.blocks, e.flushed_cursor)
    /\ FlushExample = <<3, 3, 0>>

C23_FlushedCursor == [][C23_Step]_vars

\* C24: kick_hasher completes a hash job hung on the piece (finalises the
\* SHA-1 context, writes the hash into the job and pushes it to
\* completed_jobs) only when hasher_cursor = blocks_in_piece: every job it
\* pushes was finalised with all the blocks of the piece hashed, and when
\* its loop stops below blocks_in_piece the job stays hung.
C24_PostOnlyWhenHashed ==
    \A k \in 1 .. Len(completed_jobs) :
        completed_jobs[k].hasher_cursor = blocks_in_piece(completed_jobs[k].loc)

\* C25: every hash job that try_hash_piece hung on a piece (job_queued) is
\* eventually pushed onto completed_jobs by a hasher, whichever operation
\* had the piece pinned as hashing when it was queued and with no further
\* call required of the caller.
C25_QueuedJobCompleted ==
    \A loc \in ConcLocs :
        (loc \in DOMAIN m_pieces /\ m_pieces[loc].hash_job)
            ~> (\E k \in 1 .. Len(completed_jobs) : completed_jobs[k].loc = loc)

\* C26: with try_clear_piece only ever called on a piece that is not
\* hashing, clear_piece_impl never runs on a piece whose hashing flag is
\* set: neither when try_clear_piece runs it at once, nor when a flush pass
\* runs a clear that was parked while the piece was flushing.
C26_Step ==
    /\ \A loc \in DOMAIN m_pieces :
          (~m_pieces[loc].flushing /\ m_pieces[loc].hashing) =>
              \A j \in ClearJobs :
                  try_clear_piece_cache(Cache, loc, j)
                      = [Cache EXCEPT !.p[loc].clear_piece = j]
    /\ \A t \in Threads :
          ( /\ Leaves(t, FlushWindows)
            /\ m_pieces[thr[t].loc].clear_piece # 0 ) =>
              ~m_pieces[thr[t].loc].hashing

C26_NoClearWhileHashing == [][C26_Step]_vars

\* C27: a piece entry is never erased while it is pinned: when
\* flush_to_disk (phase A) or flush_storage erases a piece, its hashing flag
\* is clear, its flushing flag is held by nobody but the erasing pass, and
\* no other thread is inside a hashing or flushing window on it.
C27_Step ==
    \A loc \in DOMAIN m_pieces :
        loc \notin DOMAIN m_pieces' =>
            /\ ~m_pieces[loc].hashing
            /\ \A t \in InWindow(loc, HashWindows \cup FlushWindows) :
                  thr[t].pc \in FlushWindows /\ thr'[t] # thr[t]

C27_NoEraseWhilePinned == [][C27_Step]_vars

\* C28: in phase B of flush_to_disk the run handed to the writer starts at
\* flushed_cursor and holds at most hasher_cursor - flushed_cursor blocks:
\* every block a phase B pass persists has an index at or above the
\* flushed_cursor and below the hasher_cursor the piece had when it was
\* pinned, so phase B persists no block that is not hashed yet.
C28_Step ==
    \A t \in Threads :
        LET loc == thr[t].loc IN
        ( /\ Leaves(t, {"flush_B"})
          /\ loc \in DOMAIN m_pieces' ) =>
            \A b \in DOMAIN m_pieces[loc].blocks :
                ( /\ m_pieces[loc].blocks[b].write_job
                  /\ m_pieces'[loc].blocks[b].flushed_to_disk ) =>
                    /\ b >= thr[t].first
                    /\ b < thr[t].first + thr[t].num_blocks
                    /\ b < m_pieces[loc].hasher_cursor

C28_PhaseBRun == [][C28_Step]_vars

\* C29: phases B and C of flush_to_disk pin a piece (and call the writer)
\* only if, when the piece is considered, m_blocks - m_flushing_blocks >
\* target; and phase B pins only a piece whose cheap_to_flush(), i.e.
\* hasher_cursor - flushed_cursor, is > 0.  (The pin adds num_blocks to
\* m_flushing_blocks and changes nothing else of what is compared.)
C29_Step ==
    \A t \in Threads :
        ( /\ thr'[t].pc \in {"flush_B", "flush_C"}
          /\ thr'[t] # thr[t]
          /\ ~thr'[t].stale ) =>
            /\ m_blocks' - (m_flushing_blocks' - thr'[t].num_blocks) > thr'[t].target
            /\ thr'[t].pc = "flush_B" =>
                  /\ cheap_to_flush(m_pieces'[thr'[t].loc]) > 0
                  /\ thr'[t].num_blocks = cheap_to_flush(m_pieces'[thr'[t].loc])

Insertable(c, loc) ==
    /\ c.p[loc].hasher_cursor = 0
    /\ c.p[loc].flushed_cursor = 0
    /\ \A b \in DOMAIN c.p[loc].blocks :
          /\ ~c.p[loc].blocks[b].write_job
          /\ ~c.p[loc].blocks[b].buf_holder
          /\ ~c.p[loc].blocks[b].flushed_to_disk
          /\ insert_pre(c, loc, b)

\* C30: after a piece has been cleared, by try_clear_piece returning true
\* or by a flush pass running a parked clear, every block of the piece has
\* no write job, no buf_holder and flushed_to_disk = false and both cursors
\* are 0, so every block can be inserted again, flushed before or not.
C30_Step ==
    /\ \A loc \in DOMAIN m_pieces :
          try_clear_piece_result(Cache, loc) =>
              \A j \in ClearJobs :
                  Insertable(try_clear_piece_cache(Cache, loc, j), loc)
    /\ \A t \in Threads :
          LET loc == thr[t].loc IN
          ( /\ Leaves(t, FlushWindows)
            /\ m_pieces[loc].clear_piece # 0
            /\ loc \in DOMAIN m_pieces' ) =>
              Insertable([Cache EXCEPT !.p = m_pieces'], loc)

C30_ClearedPieceInsertable == [][C30_Step]_vars

\* C31: piece_hash_returned is set whenever the final hash of the piece is
\* delivered to a client, by either path: try_hash_piece returning
\* job_completed sets it, and a step in which kick_hasher pushes a hung
\* hash job finalised with every block of the piece hashed leaves the piece
\* with piece_hash_returned set (so that phase A of a later flush_to_disk
\* erases the piece once it is flushed).
C31_Step ==
    /\ \A loc \in DOMAIN m_pieces :
          try_hash_piece_result(Cache, loc) = "job_completed" =>
              try_hash_piece_cache(Cache, loc).p[loc].piece_hash_returned
    /\ \A k \in 1 .. Len(completed_jobs') :
          LET j == completed_jobs'[k] IN
          ( /\ j.hasher_cursor = blocks_in_piece(j.loc)
            /\ j.loc \in DOMAIN m_pieces' ) =>
              m_pieces'[j.loc].piece_hash_returned

C31_HashReturnedOnDelivery == [][C31_Step]_vars

\* the cache a flushing thread leaves when its writer returns with `bits`:
\* the completion of flush_storage or of the phase of flush_to_disk it is in
writer_returned(c, th, t, bits) ==
    IF th[t].pc = "flush_storage" THEN flush_storage_locked(c, th, t, bits).c
    ELSE IF th[t].pc = "flush_A" THEN flush_A_locked(c, th, t, bits).c
    ELSE IF th[t].pc = "flush_B" THEN flush_B_locked(c, th, t, bits).c
    ELSE flush_C_locked(c, th, t, bits).c

\* C32: no job handed to the cache is lost.  Whatever subset of the offered
\* blocks the writer of a flush pass writes, every write job the piece held
\* is afterwards persisted, handed to clear_cb as aborted, or still in its
\* slot of the cached piece; a hash job hung on the piece is still hung or
\* pushed to completed_jobs; a clear job parked on it is still parked or
\* handed to clear_cb (so a piece is not erased with any of them); and
\* try_clear_piece never replaces a clear job that is already parked.
C32_NoJobLost ==
    /\ \A t \in Threads :
          LET loc == thr[t].loc IN
          (thr[t].pc \in FlushWindows /\ loc \in DOMAIN m_pieces) =>
          LET e == m_pieces[loc] IN
          \A bits \in SUBSET writable(e, thr[t].first) :
              LET r == writer_returned(Cache, thr, t, bits)
                  kept == IF loc \in DOMAIN r.p THEN aborted_jobs(r.p[loc]) ELSE {}
                  aborted == UNION {r.cb[k].aborted : k \in 1 .. Len(r.cb)}
              IN  /\ aborted_jobs(e) = bits \cup aborted \cup kept
                  /\ e.hash_job =>
                        \/ loc \in DOMAIN r.p /\ r.p[loc].hash_job
                        \/ \E k \in 1 .. Len(r.cj) : r.cj[k].loc = loc
                  /\ e.clear_piece # 0 =>
                        \/ loc \in DOMAIN r.p /\ r.p[loc].clear_piece = e.clear_piece
                        \/ \E k \in 1 .. Len(r.cb) : r.cb[k].job = e.clear_piece
    /\ \A loc \in DOMAIN m_pieces :
          m_pieces[loc].clear_piece # 0 =>
              \A j \in ClearJobs :
                  try_clear_piece_cache(Cache, loc, j).p[loc].clear_piece
                      = m_pieces[loc].clear_piece

====
